---- MODULE Spec2Model ----
(***************************************************************************)
(* Job pipeline orchestrator (src/services/orchestrator.py).               *)
(*                                                                         *)
(* One Job row (src/models.py) is processed by OrchestratorService.        *)
(* process_job.  The persistence engine is an entity store: Job.query.get  *)
(* reads the committed row, and db.session.commit() writes the columns     *)
(* that were assigned since the last commit.  Every read and every commit  *)
(* is one atomic step; what a thread does between two of them touches only *)
(* its own locals and is part of the step that follows.                    *)
(*                                                                         *)
(* Two specifications:                                                     *)
(*   Spec         one orchestrator worker: process_job invocations on the  *)
(*                job never overlap (the caller obligation);               *)
(*   SpecOverlap  two orchestrator workers whose invocations may overlap   *)
(*                (nothing in the code prevents it), which is the only way *)
(*                the stage fields change under a poll loop.               *)
(***************************************************************************)
EXTENDS Integers, Sequences, FiniteSets, TLC

\* ---------------------------------------------------------------- bounds
\* Largest MAX_POLL_ATTEMPTS the configuration is drawn from (0..bound).
MaxPollBound == 2
\* Number of process_job invocations in one behaviour of Spec.
MaxInvocations == 3
\* Number of process_job invocations in one behaviour of SpecOverlap.
MaxOverlapInvocations == 2

\* ------------------------------------------------------------- constants
Runs == {"r1", "r2"}            \* orchestrator workers (background threads)
FirstWorker == "r1"             \* the worker of the one-worker specification
Stages == {"ocr", "whisper"}    \* the two fan-out stage runners
TheJob == "job1"                \* id of the job row that exists
JobIds == {"job1", "job2"}      \* ids process_job may be called with

None == << >>                   \* Python None (status_message, errors)

Terminal == {"done", "failed", "cancelled"}

\* Exceptions the requests library raises from a POST.  ConnectTimeout is
\* both a ConnectionError and a Timeout.
Failures == {"SSLError", "ConnectTimeout", "ConnectionError", "ReadTimeout",
             "HTTPError"}
Outcomes == {"ok"} \cup Failures

\* ------------------------------------------------------------------ state
VARIABLES
  job,                \* the committed Job row
  lectures,           \* number of Lecture rows with job_id = TheJob
  artifacts,          \* files in the job's storage directory
  max_poll_attempts,  \* self.max_poll_attempts
  budget,             \* process_job calls the behaviour may still make
  net,                \* what a POST to a stage endpoint may do
  calls,              \* calls[r]: process_job calls worker r has started
  alone,              \* alone[r]: no other call overlapped r's current one
  arg,                \* arg[r]: job_id of r's current invocation
  pc,                 \* pc[r]: position of process_job in worker r
  wpc,                \* wpc[r][s]: position of the fan-out thread of stage s
  werr,               \* werr[r][s]: ocr_error / whisper_error
  first_error,        \* first_error[r]: the stage whose runner raised first
  mid_flight,         \* the cancel came while an upload was in flight
  attempts,           \* attempts[r]: the poll loop's counter
  exc,                \* exc[r]: the exception in flight / propagated
  loaded,             \* loaded[r]: the row the poll loop or the handler read
  posts               \* posts[r][e]: POSTs to endpoint e by r's invocation

vars == << job, lectures, artifacts, max_poll_attempts, budget, net, calls,
           alone, arg, pc, wpc, werr,
           first_error, attempts, exc, loaded, posts,
           mid_flight >>

Endpoints == {"ocr", "whisper", "llm"}
ZeroPosts == [e \in Endpoints |-> 0]

\* src/models.py Job column defaults
NewJob == [ ocr_status |-> "pending", whisper_status |-> "pending",
            llm_status |-> "pending", final_status |-> "pending",
            status_message |-> None ]

\* db.session.commit(): the assigned columns replace the committed ones.
Commit(row, assigned) ==
  [f \in DOMAIN row |-> IF f \in DOMAIN assigned THEN assigned[f] ELSE row[f]]

StatusField(s) == IF s = "ocr" THEN "ocr_status" ELSE "whisper_status"
StagePrefix(s) == IF s = "ocr" THEN "OCR: " ELSE "Whisper: "
StageFailed(s) == IF s = "ocr" THEN "OCR processing failed: "
                               ELSE "Whisper processing failed: "
StageArtifact(s) == IF s = "ocr" THEN "ocr_output.json" ELSE "transcript.json"

\* Job.can_cancel
can_cancel(row) == row.final_status \notin {"done", "failed", "cancelled"}

\* Job.is_processing
is_processing(row) ==
  \/ row.ocr_status \in {"running", "pending"}
  \/ row.whisper_status \in {"running", "pending"}
  \/ row.llm_status \in {"running", "pending"}


\* ------------------------------------------------- external service client
\* Mutant: the upload is retried once.
C2_RetryOnce == 1 + 1

\* Default of the max_attempts parameter of _post_with_files_retry.
PostMaxAttempts == 1

\* _post_with_files_retry from attempt number `attempt` on.  outs[i] is what
\* the i-th requests.post does.  The result is the number of POSTs made and
\* the text of the exception raised (None when the response is returned).
RECURSIVE PostWithFilesFrom(_, _, _)
PostWithFilesFrom(outs, attempt, max_attempts) ==
  IF attempt > max_attempts
    THEN [n |-> attempt - 1, error |-> << "Error calling url" >>]
    ELSE LET o == outs[attempt] IN
      CASE o = "ok" -> [n |-> attempt, error |-> None]
        [] o \in {"SSLError", "ConnectionError", "ConnectTimeout"} ->
             IF attempt < max_attempts
               THEN PostWithFilesFrom(outs, attempt + 1, max_attempts)
               ELSE [n |-> attempt,
                     error |-> IF o = "SSLError"
                                 THEN << "SSL error talking to url" >>
                               ELSE IF o = "ConnectTimeout"
                                 THEN << "Upload timed out while sending video to url" >>
                               ELSE << "Connection failed to url" >>]
        [] o = "ReadTimeout" ->
             [n |-> attempt, error |-> << "Service timeout: url" >>]
        [] OTHER ->
             [n |-> attempt, error |-> << "HTTP error from url" >>]

post_with_files_retry(outs) == PostWithFilesFrom(outs, 1, PostMaxAttempts)

\* _make_request(url, method='POST', data=...): the text of the exception it
\* raises for what requests.post does (None when the response is returned).
\* The Timeout clause comes first, so a ConnectTimeout is a service timeout.
make_request(o) ==
  CASE o = "ok" -> None
    [] o \in {"ReadTimeout", "ConnectTimeout"} -> << "Service timeout: url" >>
    [] o = "SSLError" -> << "SSL error talking to url" >>
    [] o = "ConnectionError" -> << "Connection failed to url" >>
    [] OTHER -> << "HTTP error from url" >>

\* ------------------------------------------------------------ process state
Idle == "idle"
\* The three return False statements are checkpoints A, B and C.
ReturnedFalse == {"returned_false_A", "returned_false_B", "returned_false_C"}
Returned == {"returned_true", "raised"} \cup ReturnedFalse
Active(r) == pc[r] \notin ({Idle} \cup Returned)

IdleThreads == [s \in Stages |-> "idle"]
NoErrors == [s \in Stages |-> None]

Init ==
  /\ job = NewJob
  /\ lectures = 0
  /\ artifacts = {"video.mp4"}
  /\ max_poll_attempts \in 0..MaxPollBound
  /\ budget = MaxInvocations
  /\ net = Outcomes
  /\ calls = [r \in Runs |-> 0]
  /\ alone = [r \in Runs |-> TRUE]
  /\ arg = [r \in Runs |-> TheJob]
  /\ pc = [r \in Runs |-> Idle]
  /\ wpc = [r \in Runs |-> IdleThreads]
  /\ werr = [r \in Runs |-> NoErrors]
  /\ first_error = [r \in Runs |-> "none"]
  /\ mid_flight = FALSE
  /\ attempts = [r \in Runs |-> 0]
  /\ exc = [r \in Runs |-> None]
  /\ loaded = [r \in Runs |-> NewJob]
  /\ posts = [r \in Runs |-> ZeroPosts]

\* --------------------------------------------------------------- process_job
\* Mutant: process_job does not look at the overall status it loads.
C3_NoCheckpointA(row) == FALSE

\* Checkpoint A: the test of the row process_job loads first.
CheckpointA(row) == row.final_status = "cancelled"

\* process_job from its call to the start of the two threads: the load, the
\* not-found raise, the cancelled return, the thread starts.
Call(r, id) ==
  /\ ~Active(r)
  /\ budget > 0
  /\ budget' = budget - 1
  /\ calls' = [calls EXCEPT ![r] = @ + 1]
  /\ alone' = [q \in Runs |->
                 IF q = r THEN \A p \in Runs \ {r} : ~Active(p)
                 ELSE IF Active(q) THEN FALSE ELSE alone[q]]
  /\ arg' = [arg EXCEPT ![r] = id]
  /\ posts' = [posts EXCEPT ![r] = ZeroPosts]
  /\ werr' = [werr EXCEPT ![r] = NoErrors]
  /\ first_error' = [first_error EXCEPT ![r] = "none"]
  /\ attempts' = [attempts EXCEPT ![r] = 0]
  /\ IF id # TheJob
       THEN /\ pc' = [pc EXCEPT ![r] = "raised"]
            /\ exc' = [exc EXCEPT ![r] = << "Job not found" >>]
            /\ wpc' = [wpc EXCEPT ![r] = IdleThreads]
       ELSE IF CheckpointA(job)
         THEN /\ pc' = [pc EXCEPT ![r] = "returned_false_A"]
              /\ exc' = [exc EXCEPT ![r] = None]
              /\ wpc' = [wpc EXCEPT ![r] = IdleThreads]
         ELSE /\ pc' = [pc EXCEPT ![r] = "join"]
              /\ exc' = [exc EXCEPT ![r] = None]
              /\ wpc' = [wpc EXCEPT ![r] = [s \in Stages |-> "start"]]
  /\ UNCHANGED << job, lectures, artifacts, max_poll_attempts, net, loaded,
                  mid_flight >>

\* A call on the one orchestrator worker.
Invoke(id) == Call(FirstWorker, id)

\* A call on any worker that is not busy, whatever the others do.
InvokeOverlap(r, id) == Call(r, id)

\* ------------------------------------------------------------ stage runners
\* Mutant: the runner goes to its upload without committing running.
C18_NoRunningCommit(r, s) ==
  /\ wpc[r][s] = "start"
  /\ wpc' = [wpc EXCEPT ![r][s] = "dispatch"]
  /\ UNCHANGED << job, lectures, artifacts, max_poll_attempts, budget, net,
                  calls, alone, arg, pc, werr, first_error, attempts, exc,
                  loaded, posts,
                  mid_flight >>

\* start_ocr_processing / start_whisper_processing, first commit: the stage
\* status becomes running.
StageSetRunning(r, s) ==
  /\ wpc[r][s] = "start"
  /\ job' = Commit(job, [f \in {StatusField(s)} |-> "running"])
  /\ wpc' = [wpc EXCEPT ![r][s] = "dispatch"]
  /\ UNCHANGED << lectures, artifacts, max_poll_attempts, budget, net, calls,
                  alone, arg, pc, werr,
                  first_error, attempts, exc, loaded, posts,
                  mid_flight >>

\* Mutant: a failing runner writes its message and leaves its status alone.
C19_FailureKeepsRunning(s, error) ==
  IF error = None
    THEN [f \in {StatusField(s), "status_message"} |->
            IF f = "status_message" THEN None ELSE "done"]
    ELSE [f \in {"status_message"} |-> << StagePrefix(s) >> \o error]

\* Mutant: a runner that succeeds marks both stages done.
C21_AssignsBothStages(s, error) ==
  IF error = None
    THEN [f \in {"ocr_status", "whisper_status", "status_message"} |->
            IF f = "status_message" THEN None ELSE "done"]
    ELSE [f \in {StatusField(s), "status_message"} |->
            IF f = "status_message" THEN << StagePrefix(s) >> \o error
                                    ELSE "failed"]

\* What the runner of stage s assigns before its last commit, given the
\* error text of its dispatch (None: the dispatch returned).
StageAssigns(s, error) ==
  IF error = None
    THEN [f \in {StatusField(s), "status_message"} |->
            IF f = "status_message" THEN None ELSE "done"]
    ELSE [f \in {StatusField(s), "status_message"} |->
            IF f = "status_message" THEN << StagePrefix(s) >> \o error
                                    ELSE "failed"]

\* The rest of the runner: _post_with_files_retry on its endpoint, the
\* artifact, the last commit; and run_ocr / run_whisper recording the error
\* the runner raised.
StageDispatch(r, s, outs) ==
  /\ wpc[r][s] = "dispatch"
  /\ LET res == post_with_files_retry(outs) IN
       /\ posts' = [posts EXCEPT ![r][s] = @ + res.n]
       /\ job' = Commit(job, StageAssigns(s, res.error))
       /\ artifacts' = IF res.error = None
                         THEN artifacts \cup {StageArtifact(s)} ELSE artifacts
       /\ werr' = [werr EXCEPT ![r][s] =
                     IF res.error = None THEN None
                                         ELSE << StageFailed(s) >> \o res.error]
       /\ first_error' = IF res.error # None /\ first_error[r] = "none"
                           THEN [first_error EXCEPT ![r] = s] ELSE first_error
  /\ wpc' = [wpc EXCEPT ![r][s] = "finished"]
  /\ UNCHANGED << lectures, max_poll_attempts, budget, net, calls, alone, arg,
                  pc, attempts, exc, loaded,
                  mid_flight >>

\* ------------------------------------------------------- fan-in and polling
\* Mutant: whisper_thread.join() is missing.
C7_JoinOcrOnly(r) ==
  /\ pc[r] = "join"
  /\ wpc[r]["ocr"] = "finished"
  /\ IF werr[r]["ocr"] # None
       THEN /\ exc' = [exc EXCEPT ![r] = werr[r]["ocr"]]
            /\ pc' = [pc EXCEPT ![r] = "except"]
       ELSE IF werr[r]["whisper"] # None
         THEN /\ exc' = [exc EXCEPT ![r] = werr[r]["whisper"]]
              /\ pc' = [pc EXCEPT ![r] = "except"]
         ELSE /\ exc' = exc
              /\ pc' = [pc EXCEPT ![r] = "poll"]
  /\ UNCHANGED << job, lectures, artifacts, max_poll_attempts, budget, net,
                  calls, alone, arg, wpc, werr,
                  first_error, attempts, loaded, posts,
                  mid_flight >>

\* Mutant: process_job goes on as soon as one runner has raised.
C16_JoinOnFirstError(r) ==
  /\ pc[r] = "join"
  /\ \/ \A s \in Stages : wpc[r][s] = "finished"
     \/ \E s \in Stages : wpc[r][s] = "finished" /\ werr[r][s] # None
  /\ IF werr[r]["ocr"] # None
       THEN /\ exc' = [exc EXCEPT ![r] = werr[r]["ocr"]]
            /\ pc' = [pc EXCEPT ![r] = "except"]
       ELSE IF werr[r]["whisper"] # None
         THEN /\ exc' = [exc EXCEPT ![r] = werr[r]["whisper"]]
              /\ pc' = [pc EXCEPT ![r] = "except"]
         ELSE /\ exc' = exc
              /\ pc' = [pc EXCEPT ![r] = "poll"]
  /\ UNCHANGED << job, lectures, artifacts, max_poll_attempts, budget, net,
                  calls, alone, arg, wpc, werr, first_error, attempts, loaded,
                  posts,
                  mid_flight >>

\* Mutant: ocr_thread.join() is missing.
C27_JoinWhisperOnly(r) ==
  /\ pc[r] = "join"
  /\ wpc[r]["whisper"] = "finished"
  /\ IF werr[r]["ocr"] # None
       THEN /\ exc' = [exc EXCEPT ![r] = werr[r]["ocr"]]
            /\ pc' = [pc EXCEPT ![r] = "except"]
       ELSE IF werr[r]["whisper"] # None
         THEN /\ exc' = [exc EXCEPT ![r] = werr[r]["whisper"]]
              /\ pc' = [pc EXCEPT ![r] = "except"]
         ELSE /\ exc' = exc
              /\ pc' = [pc EXCEPT ![r] = "poll"]
  /\ UNCHANGED << job, lectures, artifacts, max_poll_attempts, budget, net,
                  calls, alone, arg, wpc, werr, first_error, attempts, loaded,
                  posts, mid_flight >>

\* ocr_thread.join(); whisper_thread.join(); then the two error tests.
Join(r) ==
  /\ pc[r] = "join"
  /\ \A s \in Stages : wpc[r][s] = "finished"
  /\ IF werr[r]["ocr"] # None
       THEN /\ exc' = [exc EXCEPT ![r] = werr[r]["ocr"]]
            /\ pc' = [pc EXCEPT ![r] = "except"]
       ELSE IF werr[r]["whisper"] # None
         THEN /\ exc' = [exc EXCEPT ![r] = werr[r]["whisper"]]
              /\ pc' = [pc EXCEPT ![r] = "except"]
         ELSE /\ exc' = exc
              /\ pc' = [pc EXCEPT ![r] = "poll"]
  /\ UNCHANGED << job, lectures, artifacts, max_poll_attempts, budget, net,
                  calls, alone, arg, wpc, werr,
                  first_error, attempts, loaded, posts,
                  mid_flight >>

\* The text of the exception raised after the loop.
PollTimeoutError == << "Timeout waiting for OCR/Whisper to complete" >>

\* Mutant: the loop tests the stage statuses before the overall status.
C10_StagesBeforeCancelled(row) ==
  IF row.ocr_status = "done" /\ row.whisper_status = "done" THEN "break"
  ELSE IF row.ocr_status = "failed" \/ row.whisper_status = "failed" THEN "raise"
  ELSE IF row.final_status = "cancelled" THEN "return"
  ELSE "sleep"

\* Mutant: the loop tests for a failed stage before the overall status.
C22_FailedBeforeCancelled(row) ==
  IF row.ocr_status = "failed" \/ row.whisper_status = "failed" THEN "raise"
  ELSE IF row.final_status = "cancelled" THEN "return"
  ELSE IF row.ocr_status = "done" /\ row.whisper_status = "done" THEN "break"
  ELSE "sleep"

\* What one iteration of the poll loop decides on the row it reloads.
PollDecision(row) ==
  IF row.final_status = "cancelled" THEN "return"
  ELSE IF row.ocr_status = "done" /\ row.whisper_status = "done" THEN "break"
  ELSE IF row.ocr_status = "failed" \/ row.whisper_status = "failed" THEN "raise"
  ELSE "sleep"

\* Mutant: the loop runs while attempts <= max_poll_attempts.
C26_PollOneMore(r) ==
  /\ pc[r] = "poll"
  /\ IF attempts[r] <= max_poll_attempts
       THEN LET d == PollDecision(job) IN
         /\ pc' = [pc EXCEPT ![r] =
                     CASE d = "return" -> "returned_false_B"
                       [] d = "break" -> "checkpoint_c"
                       [] d = "raise" -> "except"
                       [] OTHER -> "poll"]
         /\ exc' = [exc EXCEPT ![r] =
                     IF d = "raise" THEN << "OCR or Whisper processing failed" >>
                                    ELSE @]
         /\ attempts' = [attempts EXCEPT ![r] = IF d = "sleep" THEN @ + 1 ELSE @]
         /\ loaded' = [loaded EXCEPT ![r] = job]
       ELSE /\ pc' = [pc EXCEPT ![r] = "except"]
            /\ exc' = [exc EXCEPT ![r] = PollTimeoutError]
            /\ attempts' = attempts
            /\ loaded' = loaded
  /\ UNCHANGED << job, lectures, artifacts, max_poll_attempts, budget, net,
                  calls, alone, arg, wpc, werr, first_error, posts,
                  mid_flight >>

\* The loop test and one iteration of the loop (its reload, its decision, its
\* sleep and increment), or the timeout test after the loop.
Poll(r) ==
  /\ pc[r] = "poll"
  /\ IF attempts[r] < max_poll_attempts
       THEN LET d == PollDecision(job) IN
         /\ pc' = [pc EXCEPT ![r] =
                     CASE d = "return" -> "returned_false_B"
                       [] d = "break" -> "checkpoint_c"
                       [] d = "raise" -> "except"
                       [] OTHER -> "poll"]
         /\ exc' = [exc EXCEPT ![r] =
                     IF d = "raise" THEN << "OCR or Whisper processing failed" >>
                                    ELSE @]
         /\ attempts' = [attempts EXCEPT ![r] = IF d = "sleep" THEN @ + 1 ELSE @]
         /\ loaded' = [loaded EXCEPT ![r] = job]
       ELSE /\ pc' = [pc EXCEPT ![r] = "except"]
            /\ exc' = [exc EXCEPT ![r] = PollTimeoutError]
            /\ attempts' = attempts
            /\ loaded' = loaded
  /\ UNCHANGED << job, lectures, artifacts, max_poll_attempts, budget, net,
                  calls, alone, arg, wpc, werr, first_error, posts,
                  mid_flight >>

\* Checkpoint C: the reload after the loop.
CheckpointC(r) ==
  /\ pc[r] = "checkpoint_c"
  /\ pc' = [pc EXCEPT ![r] = IF job.final_status = "cancelled"
                               THEN "returned_false_C" ELSE "llm_load"]
  /\ UNCHANGED << job, lectures, artifacts, max_poll_attempts, budget, net,
                  calls, alone, arg, wpc, werr, first_error, attempts, exc,
                  loaded, posts,
                  mid_flight >>

\* ---------------------------------------------------------- synthesis stage
\* Mutant: start_llm_processing has no precondition.
C6_NoPrecondition(row) == TRUE

\* Mutant: the precondition tests the extraction status alone.
C4_OcrOnlyPrecondition(row) == row.ocr_status = "done"

\* The text of the ValueError of a failed precondition.
PreconditionError ==
  << "OCR and Whisper must be completed before LLM processing" >>

\* The precondition of start_llm_processing.
LlmPrecondition(row) == row.ocr_status = "done" /\ row.whisper_status = "done"

\* start_llm_processing: the load and the precondition test (a ValueError
\* raised here is outside the runner's try block).
LlmLoad(r) ==
  /\ pc[r] = "llm_load"
  /\ IF LlmPrecondition(job)
       THEN /\ pc' = [pc EXCEPT ![r] = "llm_set_running"]
            /\ exc' = exc
       ELSE /\ pc' = [pc EXCEPT ![r] = "except"]
            /\ exc' = [exc EXCEPT ![r] = PreconditionError]
  /\ UNCHANGED << job, lectures, artifacts, max_poll_attempts, budget, net,
                  calls, alone, arg, wpc, werr,
                  first_error, attempts, loaded, posts,
                  mid_flight >>

\* llm_status = 'running'; commit
LlmSetRunning(r) ==
  /\ pc[r] = "llm_set_running"
  /\ job' = Commit(job, [f \in {"llm_status"} |-> "running"])
  /\ pc' = [pc EXCEPT ![r] = "llm_dispatch"]
  /\ UNCHANGED << lectures, artifacts, max_poll_attempts, budget, net, calls,
                  alone, arg, wpc, werr,
                  first_error, attempts, exc, loaded, posts,
                  mid_flight >>

\* What start_llm_processing assigns before its last commit.
LlmAssigns(error) ==
  IF error = None
    THEN [ llm_status |-> "done", final_status |-> "done",
           status_message |-> None ]
    ELSE [ llm_status |-> "failed", final_status |-> "failed",
           status_message |-> << "LLM: " >> \o error ]

\* Mutant: the Lecture is added without looking for an existing one.
C15_AlwaysInsert(n) == n + 1

\* Lecture.query.filter_by(job_id=job_id).first(), and the add when there is
\* none: the number of Lecture rows of the job after the commit.
LectureUpsert(n) == IF n = 0 THEN 1 ELSE n

\* The rest of start_llm_processing: the two artifacts are read, _make_request
\* posts the payload, the notes and the Lecture are written, the last commit;
\* process_job returns True after the success, the failure is re-raised to it.
LlmDispatch(r, o) ==
  /\ pc[r] = "llm_dispatch"
  /\ LET sent == {"ocr_output.json", "transcript.json"} \subseteq artifacts
         error == IF sent THEN make_request(o) ELSE << "No such file" >>
     IN
       /\ posts' = [posts EXCEPT ![r]["llm"] = IF sent THEN @ + 1 ELSE @]
       /\ job' = Commit(job, LlmAssigns(error))
       /\ IF error = None
            THEN /\ artifacts' = artifacts \cup {"final_notes.json"}
                 /\ lectures' = LectureUpsert(lectures)
                 /\ pc' = [pc EXCEPT ![r] = "returned_true"]
                 /\ exc' = exc
            ELSE /\ artifacts' = artifacts
                 /\ lectures' = lectures
                 /\ pc' = [pc EXCEPT ![r] = "except"]
                 /\ exc' = [exc EXCEPT ![r] =
                              << "LLM processing failed: " >> \o error]
  /\ UNCHANGED << max_poll_attempts, budget, net, calls, alone, arg, wpc,
                  werr, first_error, attempts, loaded,
                  mid_flight >>

\* ---------------------------------------------------------- failure handler
\* The except block of process_job: the reload.
Except(r) ==
  /\ pc[r] = "except"
  /\ loaded' = [loaded EXCEPT ![r] = job]
  /\ pc' = [pc EXCEPT ![r] = "except_commit"]
  /\ UNCHANGED << job, lectures, artifacts, max_poll_attempts, budget, net,
                  calls, alone, arg, wpc, werr,
                  first_error, attempts, exc, posts,
                  mid_flight >>

StageFields == {"ocr_status", "whisper_status", "llm_status"}

\* Mutant: the cleanup fails every stage, whatever its status.
C8_FailEveryStage(row, e) ==
  IF row.final_status # "cancelled"
    THEN LET fs == {"final_status"}
                   \cup (IF row.status_message = None
                           THEN {"status_message"} ELSE {})
                   \cup StageFields
         IN [f \in fs |-> IF f = "status_message" THEN e ELSE "failed"]
    ELSE [f \in {} |-> "failed"]

\* Mutant: the aggregation does not test for cancelled.
C9_NoCancelledTest(row, e) ==
  LET fs == {"final_status"}
            \cup (IF row.status_message = None THEN {"status_message"} ELSE {})
            \cup {f \in StageFields : row[f] \in {"pending", "running"}}
  IN [f \in fs |-> IF f = "status_message" THEN e ELSE "failed"]

\* Mutant: the cleanup fails the pending stages and leaves the running ones.
C13_PendingOnly(row, e) ==
  IF row.final_status # "cancelled"
    THEN LET fs == {"final_status"}
                   \cup (IF row.status_message = None
                           THEN {"status_message"} ELSE {})
                   \cup {f \in StageFields : row[f] = "pending"}
         IN [f \in fs |-> IF f = "status_message" THEN e ELSE "failed"]
    ELSE [f \in {} |-> "failed"]

\* Mutant: the aggregation never writes the status message.
C20_NoMessage(row, e) ==
  IF row.final_status # "cancelled"
    THEN LET fs == {"final_status"}
                   \cup {f \in StageFields : row[f] \in {"pending", "running"}}
         IN [f \in fs |-> "failed"]
    ELSE [f \in {} |-> "failed"]

\* Mutant: the aggregation sets the overall status failed before it tests
\* for cancelled.
C25_FailedOverCancelled(row, e) ==
  LET fs == {"final_status"}
            \cup (IF row.final_status # "cancelled" /\ row.status_message = None
                    THEN {"status_message"} ELSE {})
            \cup {f \in StageFields : /\ row.final_status # "cancelled"
                                      /\ row[f] \in {"pending", "running"}}
  IN [f \in fs |-> IF f = "status_message" THEN e ELSE "failed"]

\* Mutant: the aggregation leaves the stage statuses alone.
C28_StagesUntouched(row, e) ==
  IF row.final_status # "cancelled"
    THEN LET fs == {"final_status"}
                   \cup (IF row.status_message = None
                           THEN {"status_message"} ELSE {})
         IN [f \in fs |-> IF f = "status_message" THEN e ELSE "failed"]
    ELSE [f \in {} |-> "failed"]

\* What the except block assigns on the row it reloaded, for the error e.
HandlerAssigns(row, e) ==
  IF row.final_status # "cancelled"
    THEN LET fs == {"final_status"}
                   \cup (IF row.status_message = None
                           THEN {"status_message"} ELSE {})
                   \cup {f \in StageFields : row[f] \in {"pending", "running"}}
         IN [f \in fs |-> IF f = "status_message" THEN e ELSE "failed"]
    ELSE [f \in {} |-> "failed"]

\* The except block's commit and its raise.
ExceptCommit(r) ==
  /\ pc[r] = "except_commit"
  /\ job' = Commit(job, HandlerAssigns(loaded[r], exc[r]))
  /\ exc' = [exc EXCEPT ![r] = << "Job processing failed: " >> \o @]
  /\ pc' = [pc EXCEPT ![r] = "raised"]
  /\ UNCHANGED << lectures, artifacts, max_poll_attempts, budget, net, calls,
                  alone, arg, wpc, werr, first_error, attempts, loaded, posts,
                  mid_flight >>

\* ------------------------------------------------------------ external actor
\* The external actor that cancels a job that can be cancelled.
Cancel ==
  /\ can_cancel(job)
  /\ job' = Commit(job, [f \in {"final_status"} |-> "cancelled"])
  /\ mid_flight' = \E r \in Runs : \E s \in Stages : wpc[r][s] = "dispatch"
  /\ UNCHANGED << lectures, artifacts, max_poll_attempts, budget, net, calls,
                  alone, arg, pc, wpc, werr, first_error, attempts, exc,
                  loaded, posts >>

\* ------------------------------------------------------------ specifications
Step(r) ==
  \/ \E s \in Stages : StageSetRunning(r, s)
  \/ \E s \in Stages : \E outs \in [1..PostMaxAttempts -> net] :
       StageDispatch(r, s, outs)
  \/ Join(r)
  \/ Poll(r)
  \/ CheckpointC(r)
  \/ LlmLoad(r)
  \/ LlmSetRunning(r)
  \/ \E o \in net : LlmDispatch(r, o)
  \/ Except(r)
  \/ ExceptCommit(r)

Next ==
  \/ \E id \in JobIds : Invoke(id)
  \/ \E r \in Runs : Step(r)
  \/ Cancel

NextOverlap ==
  \/ \E r \in Runs : \E id \in JobIds : InvokeOverlap(r, id)
  \/ \E r \in Runs : Step(r)
  \/ Cancel

Spec == Init /\ [][Next]_vars

\* Two workers, two invocations, endpoints that answer or reject.
InitOverlap ==
  /\ job = NewJob
  /\ lectures = 0
  /\ artifacts = {"video.mp4"}
  /\ max_poll_attempts \in 0..MaxPollBound
  /\ budget = MaxOverlapInvocations
  /\ net = {"ok", "HTTPError"}
  /\ calls = [r \in Runs |-> 0]
  /\ alone = [r \in Runs |-> TRUE]
  /\ arg = [r \in Runs |-> TheJob]
  /\ pc = [r \in Runs |-> Idle]
  /\ wpc = [r \in Runs |-> IdleThreads]
  /\ werr = [r \in Runs |-> NoErrors]
  /\ first_error = [r \in Runs |-> "none"]
  /\ mid_flight = FALSE
  /\ attempts = [r \in Runs |-> 0]
  /\ exc = [r \in Runs |-> None]
  /\ loaded = [r \in Runs |-> NewJob]
  /\ posts = [r \in Runs |-> ZeroPosts]

SpecOverlap == InitOverlap /\ [][NextOverlap]_vars

\* The scheduler lets every process_job that has started take its next step,
\* and every POST returns or raises.
FairOverlap == SpecOverlap /\ \A r \in Runs : WF_vars(Step(r))

\* ==================================================================== claims
AllStagesDone(row) ==
  /\ row.ocr_status = "done"
  /\ row.whisper_status = "done"
  /\ row.llm_status = "done"

\* C1: once the overall status is done, failed or cancelled, no later step
\* changes it to a different value.
C1_OverallStatusMonotonic ==
  [][job.final_status \in Terminal => job'.final_status = job.final_status]_vars

\* C2: one process_job invocation posts the video to the extraction endpoint
\* at most once and to the transcription endpoint at most once, whatever the
\* requests do.
C2_AtMostOncePerInvocation ==
  \A r \in Runs : \A s \in Stages : posts[r][s] <= 1

\* An invocation whose extraction upload failed and whose transcription
\* upload succeeded, each posted once.
C2_FailedUploadPostedOnce ==
  \E r \in Runs :
    /\ \A s \in Stages : wpc[r][s] = "finished" /\ posts[r][s] = 1
    /\ werr[r]["ocr"] # None
    /\ werr[r]["whisper"] = None

\* C3: process_job called on the job while its overall status is cancelled
\* returns False at checkpoint A, starts no stage thread, posts to no
\* endpoint and writes nothing to the job; and an invocation that has
\* returned posts nothing afterwards.
C3_CancelledBeforeInvoke ==
  [][\A r \in Runs :
       /\ (calls'[r] # calls[r] /\ arg'[r] = TheJob
             /\ job.final_status = "cancelled")
            => /\ pc'[r] = "returned_false_A"
               /\ wpc'[r] = IdleThreads
               /\ posts'[r] = ZeroPosts
               /\ job' = job /\ lectures' = lectures /\ artifacts' = artifacts
       /\ (pc[r] = "returned_false_A" /\ calls'[r] = calls[r])
            => /\ pc'[r] = pc[r]
               /\ posts'[r] = ZeroPosts
               /\ wpc'[r] = IdleThreads]_vars

\* An invocation on the cancelled job has returned False at checkpoint A.
C3_ReturnedAtCheckpointA ==
  \E r \in Runs :
    /\ pc[r] = "returned_false_A"
    /\ arg[r] = TheJob
    /\ job.final_status = "cancelled"
    /\ posts[r] = ZeroPosts

\* C4: start_llm_processing entered while extraction or transcription is not
\* done raises its ValueError without posting to the synthesis endpoint and
\* without writing the job (the synthesis status included) or the Lecture.
C4_PreconditionGuard ==
  [][\A r \in Runs :
       (pc[r] = "llm_load" /\ pc'[r] # "llm_load"
          /\ (job.ocr_status # "done" \/ job.whisper_status # "done"))
         => /\ pc'[r] = "except"
            /\ exc'[r] = PreconditionError
            /\ posts[r]["llm"] = 0
            /\ posts' = posts
            /\ job' = job
            /\ lectures' = lectures]_vars

\* An invocation has ended on the precondition error, with no synthesis post.
C4_PreconditionRaised ==
  \E r \in Runs :
    /\ pc[r] = "raised"
    /\ exc[r] = << "Job processing failed: " >> \o PreconditionError
    /\ posts[r]["llm"] = 0

\* C5: the overall status is done only if the three stage statuses are done.
C5_DoneOnlyIfAllStagesDone ==
  job.final_status = "done" => AllStagesDone(job)

BothDone(row) == row.ocr_status = "done" /\ row.whisper_status = "done"

\* C6: an invocation posts to the synthesis endpoint only after its
\* precondition read found extraction and transcription committed as done;
\* and when no other invocation overlaps it, both are still done in the
\* committed row at the moment of the post.
C6_SynthesisAfterBothDone ==
  [][\A r \in Runs :
       /\ (pc'[r] = "llm_set_running" /\ pc[r] # "llm_set_running")
            => (pc[r] = "llm_load" /\ BothDone(job))
       /\ (pc'[r] = "llm_dispatch" /\ pc[r] # "llm_dispatch")
            => pc[r] = "llm_set_running"
       /\ (posts'[r]["llm"] > posts[r]["llm"])
            => (pc[r] = "llm_dispatch" /\ (alone[r] => BothDone(job)))]_vars

\* An invocation that nothing overlapped has posted to the synthesis endpoint
\* and returned True.
C6_SynthesisPosted ==
  \E r \in Runs :
    /\ pc[r] = "returned_true"
    /\ alone[r]
    /\ posts[r]["llm"] = 1
    /\ BothDone(job)

\* C7 as claimed: every invocation on the job that has ended has posted once
\* to the extraction endpoint and once to the transcription endpoint.
C7_ExactlyOncePerInvocation ==
  \A r \in Runs :
    (pc[r] \in Returned /\ arg[r] = TheJob)
      => \A s \in Stages : posts[r][s] = 1

\* C7 as amended: an invocation that has ended either stopped before the
\* fan-out (no job, or checkpoint A) and posted to neither endpoint, or ran
\* both stage threads to their end and posted exactly once to each endpoint,
\* whatever the two outcomes.
C7_ExactlyOncePastCheckpointA ==
  \A r \in Runs :
    pc[r] \in Returned
      => IF pc[r] = "returned_false_A" \/ arg[r] # TheJob
           THEN wpc[r] = IdleThreads /\ posts[r] = ZeroPosts
           ELSE \A s \in Stages : wpc[r][s] = "finished" /\ posts[r][s] = 1

\* An invocation whose two uploads both failed has ended, each posted once.
C7_BothFailedPostedOnce ==
  \E r \in Runs :
    /\ pc[r] = "raised"
    /\ \A s \in Stages : werr[r][s] # None /\ posts[r][s] = 1

\* C8: the commit of the failure handler never changes a stage status that is
\* done; when it writes (the row it reloaded is not cancelled) it sets to
\* failed exactly the stage statuses that are pending or running and leaves
\* the others as they are.
C8_CleanupKeepsDone ==
  [][\A r \in Runs :
       (pc[r] = "except_commit" /\ pc'[r] = "raised")
         => \A f \in StageFields :
              /\ job[f] = "done" => job'[f] = "done"
              /\ job'[f] = IF /\ loaded[r].final_status # "cancelled"
                              /\ job[f] \in {"pending", "running"}
                             THEN "failed" ELSE job[f]]_vars

\* The handler has run with extraction done, transcription failed by its
\* runner and synthesis still pending: extraction is still done.
C8_DoneStageKept ==
  \E r \in Runs :
    /\ pc[r] = "raised"
    /\ job.ocr_status = "done"
    /\ job.whisper_status = "failed"
    /\ job.llm_status = "failed"
    /\ job.final_status = "failed"

\* C9: when the failure handler reloads a cancelled job, its commit writes
\* nothing (overall status, status message and stage statuses keep their
\* values) and the error is still raised to the caller.
C9_CancelledNotOverwritten ==
  [][\A r \in Runs :
       (pc[r] = "except_commit" /\ pc'[r] = "raised"
          /\ loaded[r].final_status = "cancelled")
         => /\ job' = job
            /\ job'.final_status = "cancelled"
            /\ exc'[r] = << "Job processing failed: " >> \o exc[r]]_vars

\* An invocation has raised on a cancelled job whose synthesis status was
\* left pending.
C9_RaisedOnCancelledJob ==
  \E r \in Runs :
    /\ pc[r] = "raised"
    /\ arg[r] = TheJob
    /\ job.final_status = "cancelled"
    /\ job.llm_status = "pending"
    /\ Len(exc[r]) > 1

\* The poll loop of r has slept and not yet reloaded.
Waiting(r) == pc[r] = "poll" /\ attempts[r] > 0

\* C10 as claimed: when the job is cancelled while the poll loop waits, the
\* next step of the loop returns False without writing the job or posting to
\* the synthesis endpoint.
C10_CancelSeenByNextPoll ==
  [][\A r \in Runs :
       (Waiting(r) /\ job.final_status = "cancelled" /\ pc'[r] # pc[r])
         => /\ pc'[r] = "returned_false_B"
            /\ job' = job
            /\ posts'[r]["llm"] = 0]_vars

\* C10 as amended: when the job is cancelled while the poll loop waits, the
\* next step of the loop writes nothing and posts nothing; it returns False
\* when the attempt counter is still below the maximum and raises the poll
\* timeout when the wait was the last one allowed; and an invocation posts
\* to the synthesis endpoint from its synthesis dispatch only, which neither
\* outcome reaches.
C10_CancelSeenOrTimeout ==
  [][\A r \in Runs :
       /\ (Waiting(r) /\ job.final_status = "cancelled" /\ pc'[r] # pc[r])
            => /\ job' = job
               /\ posts' = posts
               /\ posts[r]["llm"] = 0
               /\ IF attempts[r] < max_poll_attempts
                    THEN pc'[r] = "returned_false_B" /\ exc'[r] = None
                    ELSE pc'[r] = "except" /\ exc'[r] = PollTimeoutError
       /\ (pc[r] # "llm_dispatch" /\ calls'[r] = calls[r])
            => posts'[r]["llm"] = posts[r]["llm"]]_vars

\* An invocation has slept in the poll loop and then returned False from it
\* on the cancelled job.
C10_ReturnedAfterWaiting ==
  \E r \in Runs :
    /\ pc[r] = "returned_false_B"
    /\ attempts[r] > 0
    /\ job.final_status = "cancelled"
    /\ posts[r]["llm"] = 0


\* C11: process_job returns True only at the end of a completed run, with the
\* overall status done, and never returns True for a job that is cancelled
\* when the run reaches its return.
C11_TrueOnlyIfNotCancelled ==
  [][\A r \in Runs :
       (pc'[r] = "returned_true" /\ pc[r] # "returned_true") =>
         /\ job'.final_status = "done"
         /\ job'.llm_status = "done"
         /\ job.final_status # "cancelled"]_vars

\* C12: in a run whose extraction upload failed and whose transcription upload
\* succeeded, on a job that is not cancelled, process_job ends with extraction
\* failed, transcription done, the overall status failed, no synthesis POST,
\* and the message the extraction runner wrote.
C12_OcrFailedWhisperDone ==
  \A r \in Runs :
    ( /\ pc[r] = "raised"
      /\ arg[r] = TheJob
      /\ werr[r]["ocr"] # None
      /\ werr[r]["whisper"] = None
      /\ job.final_status # "cancelled" ) =>
        /\ job.ocr_status = "failed"
        /\ job.whisper_status = "done"
        /\ job.final_status = "failed"
        /\ posts[r]["llm"] = 0
        /\ job.status_message = << StagePrefix("ocr") >> \o Tail(werr[r]["ocr"])


\* C13: when the poll counter has reached the configured maximum the loop is
\* left by raising the timeout error; and when the failure handler then
\* reloads a job that is not cancelled and whose extraction and transcription
\* statuses are both still running, its commit leaves the overall status
\* failed, both stage statuses failed and a pending synthesis status failed,
\* and process_job raises the timeout error.
C13_TimeoutForcesFailed ==
  [][\A r \in Runs :
       /\ (pc[r] = "poll" /\ attempts[r] >= max_poll_attempts
             /\ pc'[r] # "poll") =>
            (pc'[r] = "except" /\ exc'[r] = PollTimeoutError)
       /\ (pc[r] = "except_commit" /\ pc'[r] = "raised"
             /\ exc[r] = PollTimeoutError
             /\ loaded[r].ocr_status = "running"
             /\ loaded[r].whisper_status = "running"
             /\ loaded[r].final_status # "cancelled") =>
            ( /\ job'.final_status = "failed"
              /\ job'.ocr_status = "failed"
              /\ job'.whisper_status = "failed"
              /\ (loaded[r].llm_status = "pending" =>
                    job'.llm_status = "failed")
              /\ exc'[r] = << "Job processing failed: " >> \o PollTimeoutError )
    ]_vars

\* C13 witness: a run that slept through all its poll attempts while both
\* stages were running has raised the timeout, and the job is failed
\* throughout.
C13_TimedOutWhileRunning ==
  \E r \in Runs :
    /\ pc[r] = "raised"
    /\ exc[r] = << "Job processing failed: " >> \o PollTimeoutError
    /\ max_poll_attempts > 0
    /\ attempts[r] = max_poll_attempts
    /\ loaded[r].ocr_status = "running"
    /\ loaded[r].whisper_status = "running"
    /\ loaded[r].llm_status = "pending"
    /\ job.final_status = "failed"
    /\ job.ocr_status = "failed"
    /\ job.whisper_status = "failed"
    /\ job.llm_status = "failed"


\* The run of worker r has ended on a failed synthesis dispatch.
SynthesisFailed(r) ==
  /\ Len(exc[r]) >= 2
  /\ exc[r][2] = "LLM processing failed: "

\* C14: a process_job call that has ended on a job that is not cancelled,
\* after both uploads succeeded and without a failed synthesis dispatch, has
\* returned True, made one synthesis POST, left the three stage statuses and
\* the overall status done, and left a Lecture for the job.
C14_AllSucceedReturnsTrue ==
  \A r \in Runs :
    ( /\ pc[r] \in Returned
      /\ arg[r] = TheJob
      /\ \A s \in Stages : posts[r][s] = 1 /\ werr[r][s] = None
      /\ job.final_status # "cancelled"
      /\ ~SynthesisFailed(r) ) =>
        /\ pc[r] = "returned_true"
        /\ posts[r]["llm"] = 1
        /\ AllStagesDone(job)
        /\ job.final_status = "done"
        /\ lectures >= 1


\* C15: there is never more than one Lecture for the job; a synthesis that
\* succeeds leaves exactly one (it creates the Lecture when there is none and
\* keeps the existing one otherwise), and no other step changes the number.
C15_AtMostOneLecture ==
  /\ [](lectures <= 1)
  /\ [][IF \E r \in Runs : pc'[r] = "returned_true" /\ pc[r] # "returned_true"
          THEN lectures' = 1
          ELSE lectures' = lectures]_vars

\* C15 witness: two process_job calls, one after the other, have both
\* ended on a successful synthesis, and the job has one Lecture.
C15_TwoSynthesesOneLecture ==
  /\ \A r \in Runs : pc[r] = "returned_true" /\ alone[r] /\ posts[r]["llm"] = 1
  /\ lectures = 1


\* C16: a runner that has not finished can always take its next step,
\* whatever the other runner did; a runner that raises leaves the other
\* runner where it is; and process_job leaves the join only when both runners
\* have finished, each having posted once and committed done or failed for
\* its own stage.
C16_BarrierNoCrossCancel ==
  /\ [](\A r \in Runs : \A s \in Stages :
          /\ wpc[r][s] = "start" => ENABLED StageSetRunning(r, s)
          /\ wpc[r][s] = "dispatch" =>
               ENABLED (\E outs \in [1..PostMaxAttempts -> net] :
                          StageDispatch(r, s, outs)))
  /\ [][\A r \in Runs :
          /\ \A s \in Stages :
               (werr[r][s] = None /\ werr'[r][s] # None) =>
                 \A t \in Stages \ {s} : wpc'[r][t] = wpc[r][t]
          /\ (pc[r] = "join" /\ pc'[r] # "join") =>
               \A s \in Stages :
                 /\ wpc[r][s] = "finished"
                 /\ posts[r][s] = 1
                 /\ job[StatusField(s)] =
                      IF werr[r][s] = None THEN "done" ELSE "failed"
     ]_vars

\* C16 witness: the extraction runner has raised, and the transcription
\* runner has finished after it (its commit cleared the message the failure
\* left) with its own status done; process_job is still at the join.
C16_OtherRunnerCompleted ==
  \E r \in Runs :
    /\ pc[r] = "join"
    /\ first_error[r] = "ocr"
    /\ wpc[r]["whisper"] = "finished"
    /\ werr[r]["whisper"] = None
    /\ posts[r]["whisper"] = 1
    /\ job.ocr_status = "failed"
    /\ job.whisper_status = "done"
    /\ job.status_message = None


\* C17: when both runners of a run have raised, the error process_job raises
\* and the status message on the job are those of the runner that raised
\* first.
C17_FirstFailureReported ==
  \A r \in Runs :
    ( /\ pc[r] = "raised"
      /\ arg[r] = TheJob
      /\ \A s \in Stages : werr[r][s] # None ) =>
        LET first == first_error[r] IN
          /\ exc[r] = << "Job processing failed: " >> \o werr[r][first]
          /\ job.status_message =
               << StagePrefix(first) >> \o Tail(werr[r][first])


\* The status column of the stage behind endpoint e.
EndpointField(e) == IF e = "llm" THEN "llm_status" ELSE StatusField(e)

\* C18: every step that posts to a stage endpoint starts from a committed job
\* whose status for that stage is running.
C18_RunningBeforePost ==
  [][\A r \in Runs : \A e \in Endpoints :
       posts'[r][e] > posts[r][e] => job[EndpointField(e)] = "running"]_vars

\* C18 witness: one run has posted to each of the three endpoints.
C18_AllEndpointsPosted ==
  \E r \in Runs :
    /\ \A e \in Endpoints : posts[r][e] = 1
    /\ pc[r] \in {"returned_true", "except"}


\* C19: every exception of a POST reaches the runner as an error; a stage
\* runner that ends either records no error and commits done, or commits
\* failed with the message "<stage>: <error>" and raises that error to its
\* caller; the synthesis runner likewise; no runner ends with its status
\* running.
C19_FailureCommittedAndRaised ==
  [][/\ \A outs \in [1..PostMaxAttempts -> Outcomes] :
          LET res == post_with_files_retry(outs) IN
            res.error = None <=> outs[res.n] = "ok"
     /\ \A o \in Outcomes : make_request(o) = None <=> o = "ok"
     /\ \A r \in Runs :
          /\ \A s \in Stages :
               (wpc[r][s] = "dispatch" /\ wpc'[r][s] # "dispatch") =>
                 \/ /\ werr'[r][s] = None
                    /\ job'[StatusField(s)] = "done"
                 \/ LET error == Tail(werr'[r][s]) IN
                      /\ error # None
                      /\ werr'[r][s] = << StageFailed(s) >> \o error
                      /\ job'[StatusField(s)] = "failed"
                      /\ job'.status_message = << StagePrefix(s) >> \o error
          /\ (pc[r] = "llm_dispatch" /\ pc'[r] # "llm_dispatch") =>
               \/ /\ pc'[r] = "returned_true"
                  /\ job'.llm_status = "done"
               \/ LET error == Tail(exc'[r]) IN
                    /\ pc'[r] = "except"
                    /\ error # None
                    /\ exc'[r] = << "LLM processing failed: " >> \o error
                    /\ job'.llm_status = "failed"
                    /\ job'.status_message = << "LLM: " >> \o error
    ]_vars

\* C19 witness: a stage runner has just raised; its stage is failed and the
\* message on the job is its prefixed error.
C19_RunnerFailed ==
  \E r \in Runs : \E s \in Stages :
    /\ pc[r] = "join"
    /\ wpc[r][s] = "finished"
    /\ werr[r][s] # None
    /\ job[StatusField(s)] = "failed"
    /\ job.status_message = << StagePrefix(s) >> \o Tail(werr[r][s])


\* C20: while a process_job call on the job stands ended by a raise and the
\* job is not cancelled, the committed job has the overall status failed, a
\* status message, and no stage status pending or running.
C20_RaisedLeavesFailed ==
  \A r \in Runs :
    (pc[r] = "raised" /\ arg[r] = TheJob /\ job.final_status # "cancelled") =>
      /\ job.final_status = "failed"
      /\ job.status_message # None
      /\ \A f \in StageFields : job[f] \notin {"pending", "running"}

\* C20 witness: a run has raised from its poll loop on a job that carried no
\* message; the handler wrote the message and failed the pending synthesis.
C20_RaisedWithHandlerMessage ==
  \E r \in Runs :
    /\ pc[r] = "raised"
    /\ arg[r] = TheJob
    /\ loaded[r].status_message = None
    /\ loaded[r].llm_status = "pending"
    /\ job.final_status = "failed"
    /\ job.status_message = PollTimeoutError
    /\ job.llm_status = "failed"


\* The other fan-out stage.
OtherStage(s) == IF s = "ocr" THEN "whisper" ELSE "ocr"

\* C21: a step of the runner of one stage leaves the other stage's status as
\* it was; and once both runners of a run have finished, each stage's status
\* is done when its runner recorded no error and failed when it recorded one.
C21_OwnStageStatusOnly ==
  /\ [](\A r \in Runs :
          (pc[r] = "join" /\ \A s \in Stages : wpc[r][s] = "finished") =>
            \A s \in Stages :
              job[StatusField(s)] =
                IF werr[r][s] = None THEN "done" ELSE "failed")
  /\ [][\A r \in Runs : \A s \in Stages :
          (wpc[r][s] \in {"start", "dispatch"} /\ wpc'[r][s] # wpc[r][s]) =>
            job'[StatusField(OtherStage(s))] = job[StatusField(OtherStage(s))]
     ]_vars

\* C21 witness: the transcription runner failed, the extraction runner
\* committed its success after that (the message is cleared), and each stage
\* has its own runner's status.
C21_FailedThenDone ==
  \E r \in Runs :
    /\ pc[r] = "join"
    /\ \A s \in Stages : wpc[r][s] = "finished"
    /\ first_error[r] = "whisper"
    /\ werr[r]["ocr"] = None
    /\ job.whisper_status = "failed"
    /\ job.ocr_status = "done"
    /\ job.status_message = None


\* C22: an iteration of the poll loop decides on the committed job it
\* reloads: cancelled returns False; otherwise both stages done leaves the
\* loop towards synthesis; otherwise a failed stage raises the pipeline
\* failure; otherwise the loop sleeps and counts one more attempt.
C22_PollPriority ==
  [][\A r \in Runs :
       ( /\ pc[r] = "poll"
         /\ attempts[r] < max_poll_attempts
         /\ (pc'[r] # pc[r] \/ attempts'[r] # attempts[r]) ) =>
           IF job.final_status = "cancelled"
             THEN pc'[r] = "returned_false_B" /\ attempts'[r] = attempts[r]
           ELSE IF job.ocr_status = "done" /\ job.whisper_status = "done"
             THEN pc'[r] = "checkpoint_c" /\ attempts'[r] = attempts[r]
           ELSE IF job.ocr_status = "failed" \/ job.whisper_status = "failed"
             THEN /\ pc'[r] = "except"
                  /\ exc'[r] = << "OCR or Whisper processing failed" >>
           ELSE pc'[r] = "poll" /\ attempts'[r] = attempts[r] + 1
    ]_vars

\* C22 witness: a poll iteration reloaded a job that was cancelled and had a
\* failed stage, and process_job returned False.
C22_CancelledAndFailedReturnsFalse ==
  \E r \in Runs :
    /\ pc[r] = "returned_false_B"
    /\ loaded[r].final_status = "cancelled"
    /\ loaded[r].ocr_status = "failed" \/ loaded[r].whisper_status = "failed"


\* C23: process_job never raises the poll timeout from a committed job whose
\* extraction and transcription statuses are both done, whatever the
\* configured maximum.
C23_NoTimeoutWhenBothDone ==
  [][\A r \in Runs :
       (pc[r] = "poll" /\ pc'[r] = "except" /\ exc'[r] = PollTimeoutError) =>
         ~(job.ocr_status = "done" /\ job.whisper_status = "done")]_vars


\* C24: no step takes the overall status from pending directly to done or
\* to failed.
C24_TerminalOnlyFromRunning ==
  [][job.final_status = "pending" =>
       job'.final_status \notin {"done", "failed"}]_vars


\* C25: after a cancel that came while an upload of the fan-out was in
\* flight, a runner that has not finished can still take its step; once
\* process_job is past the join both stage statuses are done or failed;
\* process_job never gets past checkpoint B, makes no synthesis POST, and the
\* overall status stays cancelled.
C25_MidFlightCancel ==
  mid_flight =>
    /\ job.final_status = "cancelled"
    /\ \A r \in Runs :
         /\ posts[r]["llm"] = 0
         /\ pc[r] \notin {"checkpoint_c", "llm_load", "llm_set_running",
                          "llm_dispatch", "returned_true", "returned_false_C"}
         /\ \A s \in Stages :
              wpc[r][s] = "dispatch" =>
                ENABLED (\E outs \in [1..PostMaxAttempts -> net] :
                           StageDispatch(r, s, outs))
    /\ (\A r \in Runs : pc[r] # "join") =>
         \A s \in Stages : job[StatusField(s)] \in {"done", "failed"}

\* C25 witness: the job was cancelled during an upload, both runners then
\* finished with their stages done, and process_job returned False from the
\* poll loop.
C25_CancelledMidFlightReturnedFalse ==
  \E r \in Runs :
    /\ mid_flight
    /\ pc[r] = "returned_false_B"
    /\ \A s \in Stages : posts[r][s] = 1 /\ job[StatusField(s)] = "done"
    /\ job.final_status = "cancelled"


\* C26: the poll counter never exceeds the configured maximum, and every
\* process_job call that has started ends: it returns True, returns False or
\* raises.
C26_Terminates ==
  /\ [](\A r \in Runs : attempts[r] <= max_poll_attempts)
  /\ \A r \in Runs : Active(r) ~> (pc[r] \in Returned)

\* C26 witness: a run slept through the largest configured number of poll
\* attempts and ended.
C26_EndedAfterAllAttempts ==
  \E r \in Runs :
    /\ pc[r] \in Returned
    /\ max_poll_attempts = MaxPollBound
    /\ attempts[r] = max_poll_attempts


\* C27: with one process_job at a time, a run that is past the join finds
\* both stage statuses done or failed in the committed job; its poll loop
\* never sleeps (the counter stays 0); and with a configured maximum of at
\* least 1 it never raises the poll timeout.
C27_TerminalAfterJoin ==
  \A r \in Runs :
    /\ attempts[r] = 0
    /\ pc[r] \in {"poll", "checkpoint_c", "except"} =>
         \A s \in Stages : job[StatusField(s)] \in {"done", "failed"}
    /\ max_poll_attempts >= 1 =>
         /\ exc[r] # PollTimeoutError
         /\ exc[r] # << "Job processing failed: " >> \o PollTimeoutError

\* C27 witness: the first poll iteration found both stages done and left the
\* loop without a sleep.
C27_LeftLoopAtOnce ==
  \E r \in Runs :
    /\ pc[r] = "checkpoint_c"
    /\ max_poll_attempts >= 1
    /\ attempts[r] = 0
    /\ loaded[r].ocr_status = "done"
    /\ loaded[r].whisper_status = "done"


\* C28 as claimed: while a process_job call that got past checkpoint A stands
\* ended and the overall status is done, failed or cancelled, no stage status
\* is pending or running.
C28_TerminalNotProcessing ==
  \A r \in Runs :
    ( /\ pc[r] \in Returned \ {"returned_false_A"}
      /\ arg[r] = TheJob
      /\ job.final_status \in Terminal ) => ~is_processing(job)

\* C28 amended: while a process_job call on the job stands ended and the
\* overall status is done or failed, no stage status is pending or running.
C28_DoneOrFailedNotProcessing ==
  \A r \in Runs :
    ( /\ pc[r] \in Returned
      /\ arg[r] = TheJob
      /\ job.final_status \in {"done", "failed"} ) => ~is_processing(job)

\* C28 witness: a run ended on a failed synthesis; the job is failed and no
\* stage is pending or running.
C28_EndedFailedNotProcessing ==
  \E r \in Runs :
    /\ pc[r] = "raised"
    /\ SynthesisFailed(r)
    /\ job.final_status = "failed"
    /\ ~is_processing(job)

====
